---- MODULE Spec2Model ----
(***************************************************************************)
(* Drag-and-drop feature of the tree widget (src/js/features/draggable.js). *)
(* The Draggable instance, the hover class it puts on node elements, the   *)
(* mousemove/mouseup subscriptions it makes on the tree and the host's     *)
(* setTimeout queue are the state; the host's events are the actions.      *)
(***************************************************************************)
EXTENDS Integers, Sequences, FiniteSets, TLC

\* ------------------------------------------------------------------ bounds
\* setTimeout callbacks that may be pending in the host at once
MaxTimers == 2
\* largest boundary margin and tallest rectangle the geometry functions are
\* evaluated on
MaxMargin == 4
MaxHeight == 10

\* ------------------------------------------------- the tree (collaborator)
Null == "null"
RootId == "root"
NodeIds == {"n1", "n2", "n3", "n4"}

\* tree.getChildIds: root -> n1 (-> n2, n3), n4
getChildIds(id) ==
    CASE id = RootId -> <<"n1", "n4">>
      [] id = "n1"   -> <<"n2", "n3">>
      [] OTHER       -> <<>>

getRootNodeId == RootId

SeqToSet(s) == {s[i] : i \in 1..Len(s)}

\* tree.getParentId
getParentId(id) ==
    IF \E p \in NodeIds \cup {RootId} : id \in SeqToSet(getChildIds(p))
    THEN CHOOSE p \in NodeIds \cup {RootId} : id \in SeqToSet(getChildIds(p))
    ELSE Null

\* tree.getNodeIndex: zero-based position among the siblings
getNodeIndex(id) ==
    LET sibs == getChildIds(getParentId(id))
    IN  IF \E i \in 1..Len(sibs) : sibs[i] = id
        THEN (CHOOSE i \in 1..Len(sibs) : sibs[i] = id) - 1
        ELSE -1

\* tree.isLeaf
isLeaf(id) == Len(getChildIds(id)) = 0

\* --------------------------------------------- the rendered document
\* Every node is drawn opened, one row per node in document order; a node's
\* element (an <li>) holds its own row and, below it, the rows of its subtree.
RowH == 10
Width == 2
DocOrder == <<"n1", "n2", "n3", "n4">>

Row(id) == (CHOOSE i \in 1..Len(DocOrder) : DocOrder[i] = id) - 1

RECURSIVE LastRow(_)
LastRow(id) ==
    LET c == getChildIds(id)
    IN  IF Len(c) = 0 THEN Row(id) ELSE LastRow(c[Len(c)])

\* currentElement.getBoundingClientRect()
getBoundingClientRect(id) ==
    [top    |-> RowH * Row(id),
     bottom |-> RowH * (LastRow(id) + 1),
     left   |-> 0,
     right  |-> Width]

\* tree.getNodeIdFromElement(util.getTarget(event)) for the element under the
\* pointer: the node whose own row holds the point, nothing on the background
getNodeIdFromElement(pos) ==
    IF pos.x >= 0 /\ pos.x <= Width
       /\ \E id \in NodeIds : pos.y >= RowH * Row(id) /\ pos.y < RowH * (Row(id) + 1)
    THEN CHOOSE id \in NodeIds : pos.y >= RowH * Row(id) /\ pos.y < RowH * (Row(id) + 1)
    ELSE Null

\* ------------------------------------------------------------ options
\* defaultOptions.lineBoundary, the margins of an instance built without the
\* option
lineBoundaryTop == 4
lineBoundaryBottom == 4
\* the built-in rejected tags, and the option rejectedClassNames of this run
rejectedTagNames == {"INPUT", "BUTTON", "UL"}
rejectedClassNames == {"no-drag"}

\* ------------------------------------------------------------- state
\* tree.on(...) is a subscription: a handler runs when the tree fires its
\* event while the handler is subscribed, once per event; tree.off(this, ...)
\* in _reset and tree.off(this) in destroy end the subscription.
VARIABLES
    this,        \* the instance: currentNodeId, hoveredElement, movingLineType, timer
    useHelper,   \* options.useHelper
    isSortable,  \* options.isSortable
    lineBoundary, \* options.lineBoundary: top and bottom
    hoverClass,  \* node elements that carry hoverClassName
    attached,    \* the mousedown handler is subscribed on the tree
    listening,   \* the mousemove and mouseup handlers are subscribed on the tree
    pending,     \* host timer queue: setTimeout callbacks not yet run or cleared
    calls,       \* the tree.move and tree.open calls made in the last step
    event,       \* the host event handled last
    probe        \* the latest direct evaluation of the geometry functions

vars == <<this, useHelper, isSortable, lineBoundary, hoverClass, attached,
          listening, pending, calls, event, probe>>

\* this.timer = null
NoTimer == 0

\* The instance and the part of its environment the handlers write.
World ==
    [this |-> this, hoverClass |-> hoverClass, attached |-> attached,
     listening |-> listening, pending |-> pending, calls |-> <<>>]

\* tree.move(nodeId, newParentId, index) and tree.open(nodeId)
Move(nodeId, newParentId, index) ==
    [op |-> "move", nodeId |-> nodeId, newParentId |-> newParentId, index |-> index]

Open(nodeId) ==
    [op |-> "open", nodeId |-> nodeId, newParentId |-> Null, index |-> -1]

\* ------------------------------------------------------- the handlers
\* forEach(classNames, fn): stops at the first call that returns false, here
\* at the first rejected class; `result` is what the last call assigned
RECURSIVE forEachClassName(_, _, _)
forEachClassName(classNames, i, result) ==
    IF i > Len(classNames) THEN result
    ELSE LET r == classNames[i] \in rejectedClassNames
         IN  IF r THEN r ELSE forEachClassName(classNames, i + 1, r)

\* mutant: the iteration does not stop at the first rejected class, so the
\* last class of the list decides
_isNotDraggable_lastClassDecides(target) ==
    IF target.tagName \in rejectedTagNames THEN TRUE
    ELSE target.classNames[Len(target.classNames)] \in rejectedClassNames

_isNotDraggable(target) ==
    IF target.tagName \in rejectedTagNames THEN TRUE
    ELSE forEachClassName(target.classNames, 1, FALSE)

\* mutant: the rectangle is not shrunk by the margins in sortable mode
_isContain_noMargins(targetPos, mousePos) ==
    /\ targetPos.left < mousePos.x
    /\ targetPos.right > mousePos.x
    /\ targetPos.top < mousePos.y
    /\ targetPos.bottom > mousePos.y

_isContain(targetPos, mousePos) ==
    LET top    == IF isSortable THEN targetPos.top + lineBoundary.top ELSE targetPos.top
        bottom == IF isSortable THEN targetPos.bottom - lineBoundary.bottom
                  ELSE targetPos.bottom
    IN  /\ targetPos.left < mousePos.x
        /\ targetPos.right > mousePos.x
        /\ top < mousePos.y
        /\ bottom > mousePos.y

\* mutant: the two tests include the boundary lines themselves
_getBoundaryType_inclusive(targetPos, mousePos) ==
    IF mousePos.y <= targetPos.top + lineBoundary.top THEN "top"
    ELSE IF mousePos.y >= targetPos.bottom - lineBoundary.bottom THEN "bottom"
    ELSE Null

\* mutant: the bottom test is made first
_getBoundaryType_bottomFirst(targetPos, mousePos) ==
    IF mousePos.y > targetPos.bottom - lineBoundary.bottom THEN "bottom"
    ELSE IF mousePos.y < targetPos.top + lineBoundary.top THEN "top"
    ELSE Null

_getBoundaryType(targetPos, mousePos) ==
    IF mousePos.y < targetPos.top + lineBoundary.top THEN "top"
    ELSE IF mousePos.y > targetPos.bottom - lineBoundary.bottom THEN "bottom"
    ELSE Null

_drawBoundaryLine(w, targetPos, boundaryType) ==
    [w EXCEPT !.this.movingLineType = boundaryType]

\* setTimeout: a handle no pending callback and no field of the instance holds
NewTimerId(w) ==
    CHOOSE n \in 1..(MaxTimers + 2) :
        /\ n # w.this.timer
        /\ \A t \in w.pending : t.id # n
        /\ \A m \in 1..(n - 1) : m = w.this.timer \/ \E t \in w.pending : t.id = m

\* mutant: the timer is armed for a leaf too
_hover_armsForLeaf(w, nodeId) ==
    LET marked == [w EXCEPT !.hoverClass = @ \cup {w.this.hoveredElement}]
        id     == NewTimerId(marked)
    IN  [marked EXCEPT !.this.timer = id,
                       !.pending = @ \cup {[id |-> id, nodeId |-> nodeId]}]

_hover(w, nodeId) ==
    LET marked == [w EXCEPT !.hoverClass = @ \cup {w.this.hoveredElement}]
    IN  IF isLeaf(nodeId) THEN marked
        ELSE LET id == NewTimerId(marked)
             IN  [marked EXCEPT !.this.timer = id,
                                !.pending = @ \cup {[id |-> id, nodeId |-> nodeId]}]

\* mutant: the handle is forgotten without clearTimeout
_unhover_noClearTimeout(w) ==
    [w EXCEPT !.hoverClass = @ \ {w.this.hoveredElement},
              !.this.hoveredElement = Null,
              !.this.timer = NoTimer]

_unhover(w) ==
    [w EXCEPT !.pending = {t \in @ : t.id # w.this.timer},
              !.hoverClass = @ \ {w.this.hoveredElement},
              !.this.hoveredElement = Null,
              !.this.timer = NoTimer]

\* mutant: the boundary line is drawn whether or not the tree is sortable
_applyMoveAction_alwaysBoundary(w, nodeId, mousePos) ==
    LET targetPos == getBoundingClientRect(nodeId)
        hasClass  == nodeId \in w.hoverClass
        isContain == _isContain(targetPos, mousePos)
        hovered   ==
            IF w.this.hoveredElement = Null /\ isContain
            THEN _hover([w EXCEPT !.this.hoveredElement = nodeId], nodeId)
            ELSE IF ~hasClass \/ (hasClass /\ ~isContain)
            THEN _unhover(w)
            ELSE w
    IN  _drawBoundaryLine(hovered, targetPos, _getBoundaryType(targetPos, mousePos))

\* mutant: hover entry does not ask whether a node is hovered already
_applyMoveAction_noHoveredCheck(w, nodeId, mousePos) ==
    LET targetPos == getBoundingClientRect(nodeId)
        hasClass  == nodeId \in w.hoverClass
        isContain == _isContain(targetPos, mousePos)
        hovered   ==
            IF isContain /\ ~hasClass
            THEN _hover([w EXCEPT !.this.hoveredElement = nodeId], nodeId)
            ELSE IF ~hasClass \/ (hasClass /\ ~isContain)
            THEN _unhover(w)
            ELSE w
    IN  IF isSortable
        THEN _drawBoundaryLine(hovered, targetPos, _getBoundaryType(targetPos, mousePos))
        ELSE hovered

_applyMoveAction(w, nodeId, mousePos) ==
    LET targetPos == getBoundingClientRect(nodeId)
        hasClass  == nodeId \in w.hoverClass
        isContain == _isContain(targetPos, mousePos)
        hovered   ==
            IF w.this.hoveredElement = Null /\ isContain
            THEN _hover([w EXCEPT !.this.hoveredElement = nodeId], nodeId)
            ELSE IF ~hasClass \/ (hasClass /\ ~isContain)
            THEN _unhover(w)
            ELSE w
    IN  IF isSortable
        THEN _drawBoundaryLine(hovered, targetPos, _getBoundaryType(targetPos, mousePos))
        ELSE hovered

\* mutant: the moving line type survives the reset
_reset_keepsLineType(w) ==
    [w EXCEPT !.hoverClass = @ \ {w.this.hoveredElement},
              !.this.hoveredElement = Null,
              !.this.currentNodeId = Null,
              !.listening = FALSE]

_reset(w) ==
    [w EXCEPT !.hoverClass = @ \ {w.this.hoveredElement},
              !.this.hoveredElement = Null,
              !.this.currentNodeId = Null,
              !.this.movingLineType = Null,
              !.listening = FALSE]

\* mutant: a drop on the background resolves to the root itself
_getTargetNodeId_rootOnBackground(w, target) ==
    LET nodeId == getNodeIdFromElement(target)
    IN  IF nodeId # Null THEN nodeId
        ELSE IF w.this.movingLineType = Null THEN getRootNodeId
        ELSE IF w.this.movingLineType = "top" THEN getChildIds(getRootNodeId)[1]
        ELSE getChildIds(getRootNodeId)[Len(getChildIds(getRootNodeId))]

\* mutant: a drop on the background always resolves to the last root child
_getTargetNodeId_alwaysLast(w, target) ==
    LET nodeId   == getNodeIdFromElement(target)
        childIds == getChildIds(getRootNodeId)
    IN  IF nodeId # Null THEN nodeId ELSE childIds[Len(childIds)]

_getTargetNodeId(w, target) ==
    LET nodeId   == getNodeIdFromElement(target)
        childIds == getChildIds(getRootNodeId)
    IN  IF nodeId # Null THEN nodeId
        ELSE IF w.this.movingLineType = "top" THEN childIds[1]
        ELSE childIds[Len(childIds)]

\* mutant: the index is not moved past the node for the bottom line
_getIndexToInsert_noBottomShift(w, nodeId) ==
    IF w.this.movingLineType = Null THEN -1 ELSE getNodeIndex(nodeId)

_getIndexToInsert(w, nodeId) ==
    IF w.this.movingLineType = Null THEN -1
    ELSE IF w.this.movingLineType = "bottom" THEN getNodeIndex(nodeId) + 1
    ELSE getNodeIndex(nodeId)

_onMousedown(w, ev) ==
    IF ev.rightButton \/ _isNotDraggable(ev) \/ ev.isEditing THEN w
    ELSE [w EXCEPT !.this.currentNodeId = getNodeIdFromElement(ev.pos),
                   !.listening = TRUE]

_onMousemove(w, ev) ==
    LET nodeId == getNodeIdFromElement(ev.pos)
    IN  IF ~useHelper THEN w
        ELSE IF nodeId # Null THEN _applyMoveAction(w, nodeId, ev.pos)
        ELSE w

\* mutant: the target is taken as the new parent also for a sibling placement
_onMouseup_targetAsParent(w, ev) ==
    LET nodeId   == w.this.currentNodeId
        targetId == _getTargetNodeId(w, ev.pos)
        index    == _getIndexToInsert(w, targetId)
        moved    == [w EXCEPT !.calls = Append(@, Move(nodeId, targetId, index))]
    IN  _reset(moved)

_onMouseup(w, ev) ==
    LET nodeId      == w.this.currentNodeId
        targetId    == _getTargetNodeId(w, ev.pos)
        index       == _getIndexToInsert(w, targetId)
        newParentId == IF index = -1 THEN targetId ELSE getParentId(targetId)
        moved       == [w EXCEPT !.calls = Append(@, Move(nodeId, newParentId, index))]
    IN  _reset(moved)

destroy(w) ==
    [w EXCEPT !.attached = FALSE, !.listening = FALSE]

\* -------------------------------------------------------- host events
NoPos == [x |-> -1, y |-> -1]

Event(type, pos) ==
    [type |-> type, pos |-> pos, tagName |-> "", classNames |-> <<>>,
     rightButton |-> FALSE, isEditing |-> FALSE]

\* a point of the tree's background, below the last row
Background == [x |-> 1, y |-> RowH * Len(DocOrder)]

\* the middle of every node's own row
RowCentres == {[x |-> 1, y |-> RowH * Row(id) + RowH \div 2] : id \in NodeIds}

\* offsets in a row: above, on and below the top boundary line, and below
\* the bottom boundary line
RowOffsets ==
    {lineBoundaryTop - 1, lineBoundaryTop, lineBoundaryTop + 1,
     RowH - lineBoundaryBottom + 1}

\* pointer samples: inside every row, on the left edge of the first row, and
\* on the background
MovePositions ==
    {[x |-> 1, y |-> RowH * Row(id) + o] : id \in NodeIds, o \in RowOffsets}
        \cup {[x |-> 0, y |-> lineBoundaryTop + 1], Background}

\* pointer-down samples, all on an element inside a node: a draggable text
\* element on every node, and on the first node one event for every reason
\* _onMousedown has to return early
Down(p, tagName, classNames, rightButton, isEditing) ==
    [type |-> "mousedown", pos |-> p, tagName |-> tagName, classNames |-> classNames,
     rightButton |-> rightButton, isEditing |-> isEditing]

FirstRow == [x |-> 1, y |-> RowH \div 2]

MousedownEvents ==
    {Down(p, "SPAN", <<"a">>, FALSE, FALSE) : p \in RowCentres}
        \cup {Down(FirstRow, "SPAN", <<"a">>, TRUE, FALSE),
              Down(FirstRow, "SPAN", <<"a">>, FALSE, TRUE),
              Down(FirstRow, "INPUT", <<"a">>, FALSE, FALSE),
              Down(FirstRow, "SPAN", <<"a", "no-drag">>, FALSE, FALSE),
              Down(FirstRow, "SPAN", <<"no-drag", "a">>, FALSE, FALSE)}

Set(w, ev) ==
    /\ this' = w.this
    /\ hoverClass' = w.hoverClass
    /\ attached' = w.attached
    /\ listening' = w.listening
    /\ pending' = w.pending
    /\ calls' = w.calls
    /\ event' = ev
    /\ UNCHANGED <<useHelper, isSortable, lineBoundary, probe>>

\* nothing to evaluate directly
NoProbe ==
    [evaluated |-> FALSE, targetPos |-> [top |-> 0, bottom |-> 0, left |-> 0, right |-> 0],
     mousePos |-> NoPos, isContain |-> FALSE, movingLineType |-> Null]

\* init(tree, options): the fields are taken from the options as they come
Constructed(options) ==
    /\ this = [currentNodeId |-> Null, hoveredElement |-> Null,
               movingLineType |-> Null, timer |-> NoTimer]
    /\ useHelper = options.useHelper
    /\ isSortable = options.isSortable
    /\ lineBoundary = options.lineBoundary
    /\ hoverClass = {}
    /\ attached = TRUE
    /\ listening = FALSE
    /\ pending = {}
    /\ calls = <<>>
    /\ event = Event("init", NoPos)

\* instances built with the default margins
DefaultMarginOptions ==
    [useHelper : BOOLEAN, isSortable : BOOLEAN,
     lineBoundary : {[top |-> lineBoundaryTop, bottom |-> lineBoundaryBottom]}]

Init ==
    /\ \E options \in DefaultMarginOptions : Constructed(options)
    /\ probe = NoProbe

\* the tree fires 'mousedown' and the subscribed handler runs
Mousedown ==
    /\ attached
    /\ \E ev \in MousedownEvents :
           LET w == _onMousedown(World, ev)
           IN  Set(w, ev)

\* the tree fires 'mousemove' and the subscribed handler runs
Mousemove ==
    /\ listening
    /\ \E p \in MovePositions :
           LET ev == Event("mousemove", p)
               w  == _onMousemove(World, ev)
           IN  /\ Cardinality(w.pending) <= MaxTimers
               /\ Set(w, ev)

\* the tree fires 'mouseup' and the subscribed handler runs
Mouseup ==
    /\ listening
    /\ \E p \in RowCentres \cup {Background} :
           LET ev == Event("mouseup", p)
               w  == _onMouseup(World, ev)
           IN  Set(w, ev)

\* the host runs a pending setTimeout callback: tree.open(nodeId)
Timeout ==
    \E t \in pending :
        /\ pending' = pending \ {t}
        /\ calls' = <<Open(t.nodeId)>>
        /\ event' = Event("timeout", NoPos)
        /\ UNCHANGED <<this, useHelper, isSortable, lineBoundary, hoverClass,
                       attached, listening, probe>>

\* the owner disables the feature
Destroy ==
    /\ attached
    /\ LET w == destroy(World)
       IN  Set(w, Event("destroy", NoPos))

Next == Mousedown \/ Mousemove \/ Mouseup \/ Timeout \/ Destroy

Spec == Init /\ [][Next]_vars

\* ------------------------------------------- the geometry functions alone
\* _isContain and _getBoundaryType (with the line type _drawBoundaryLine
\* records for it) evaluated on an instance built with any margins, a
\* negative one included, for a rectangle and a pointer position of any
\* relative size: the initial state holds the arguments, Classify the results.
Margins == (-1)..MaxMargin

AnyMarginOptions ==
    [useHelper : {TRUE}, isSortable : BOOLEAN,
     lineBoundary : [top : Margins, bottom : Margins]]

ProbeRects ==
    {[top |-> 1, bottom |-> 1 + h, left |-> 0, right |-> Width] : h \in 1..MaxHeight}

ProbePoints(rect) ==
    {[x |-> x, y |-> y] : x \in 0..Width, y \in (rect.top - 1)..(rect.bottom + 1)}

Arguments(targetPos, mousePos) ==
    [NoProbe EXCEPT !.targetPos = targetPos, !.mousePos = mousePos]

Classified(targetPos, mousePos) ==
    [evaluated |-> TRUE, targetPos |-> targetPos, mousePos |-> mousePos,
     isContain |-> _isContain(targetPos, mousePos),
     movingLineType |->
        _drawBoundaryLine(World, targetPos,
                          _getBoundaryType(targetPos, mousePos)).this.movingLineType]

InitGeom ==
    /\ \E options \in AnyMarginOptions : Constructed(options)
    /\ \E r \in ProbeRects : \E p \in ProbePoints(r) : probe = Arguments(r, p)

Classify ==
    /\ probe # NoProbe
    /\ ~probe.evaluated
    /\ probe' = Classified(probe.targetPos, probe.mousePos)
    /\ UNCHANGED <<this, useHelper, isSortable, lineBoundary, hoverClass, attached,
                   listening, pending, calls, event>>

NextGeom == Classify

GeomSpec == InitGeom /\ [][NextGeom]_vars

\* Sortable mode as a whole: a behaviour is either the drag sessions of a
\* sortable instance with the default margins, or an evaluation of the
\* geometry functions on a sortable instance with margins that are not
\* negative.
InitSortable ==
    /\ \/ Init
       \/ InitGeom /\ lineBoundary.top >= 0 /\ lineBoundary.bottom >= 0
    /\ isSortable

Session == probe = NoProbe /\ Next

NextSortable == Session \/ Classify

SortableSpec == InitSortable /\ [][NextSortable]_vars

\* ------------------------------------------------------------- claims
\* Vocabulary of the claims: a session is Active while the mousemove and
\* mouseup handlers are subscribed, Idle otherwise; the step that handles an
\* event leaves that event in `event`.
Active == listening
Idle == ~listening
Step(type) == event'.type = type
HitNode(pos) == getNodeIdFromElement(pos)
OpensIn(cs) == {i \in 1..Len(cs) : cs[i].op = "open"}
MovesIn(cs) == {i \in 1..Len(cs) : cs[i].op = "move"}
ArmedTimerPending(ps, handle) == \E t \in ps : t.id = handle

\* the decision the specification gives for a release on node X in a zone
DecisionOn(X, zone) ==
    CASE zone = Null     -> [newParentId |-> X, index |-> -1]
      [] zone = "top"    -> [newParentId |-> getParentId(X), index |-> getNodeIndex(X)]
      [] zone = "bottom" -> [newParentId |-> getParentId(X), index |-> getNodeIndex(X) + 1]

DecisionOf(call) == [newParentId |-> call.newParentId, index |-> call.index]

\* C1: once a session has ended by pointer-up and the feature is Idle again, no
\* auto-expand timer armed during the session fires: no step taken from an
\* Idle state of a live instance calls tree.open.
C1_NoExpandAfterSessionEnd ==
    [][(Idle /\ attached) => OpensIn(calls') = {}]_vars

\* C2: a pointer-down handled while a session is Active changes no session
\* field, the dragged node stays the same for as long as the session is
\* Active, and the pointer-up moves that node.
C2_PointerDownWhileActiveIgnored ==
    [][/\ (Active /\ Step("mousedown")) =>
            /\ this' = this
            /\ listening' = listening
            /\ hoverClass' = hoverClass
            /\ pending' = pending
       /\ (Active /\ listening') => this'.currentNodeId = this.currentNodeId
       /\ (Active /\ Step("mouseup")) =>
            \A i \in MovesIn(calls') : calls'[i].nodeId = this.currentNodeId]_vars

\* C3: every pointer-up of an Active session makes exactly one tree.move call,
\* for the dragged node, whatever the target is, and leaves the session Idle
\* with no dragged node, no hovered node, no hover class and zone None.
C3_PointerUpEmitsOneDecision ==
    [][(Active /\ Step("mouseup")) =>
            /\ Len(calls') = 1
            /\ calls'[1].op = "move"
            /\ calls'[1].nodeId = this.currentNodeId
            /\ ~listening'
            /\ this'.currentNodeId = Null
            /\ this'.hoveredElement = Null
            /\ hoverClass' = {}
            /\ this'.movingLineType = Null]_vars

\* a pointer-up has just dropped a node onto itself
C3_Witness ==
    /\ event.type = "mouseup"
    /\ Idle
    /\ Len(calls) = 1
    /\ calls[1].op = "move"
    /\ calls[1].nodeId # Null
    /\ calls[1].newParentId = calls[1].nodeId

\* C4: a pointer-up over a node X yields the decision DecisionOn(X, zone),
\* zone being the zone recorded at release: (X, -1) for None, (parentOf(X),
\* childIndexOf(X)) for Top and (parentOf(X), childIndexOf(X) + 1) for Bottom.
C4_DropOnNode ==
    [][(Active /\ Step("mouseup") /\ HitNode(event'.pos) # Null) =>
            /\ MovesIn(calls') = {1}
            /\ DecisionOf(calls'[1])
                 = DecisionOn(HitNode(event'.pos), this.movingLineType)]_vars

\* a release in zone Bottom on a node with sibling index 1 gave index 2
C4_Witness ==
    /\ event.type = "mouseup"
    /\ HitNode(event.pos) = "n3"
    /\ Len(calls) = 1
    /\ calls[1].newParentId = "n1"
    /\ calls[1].index = 2

\* the zone the specification gives a pointer at height y over rectangle rect
ZoneOf(rect, y) ==
    IF y < rect.top + lineBoundary.top THEN "top"
    ELSE IF y > rect.bottom - lineBoundary.bottom THEN "bottom"
    ELSE Null

FirstRootChild == getChildIds(RootId)[1]
LastRootChild == getChildIds(RootId)[Len(getChildIds(RootId))]

\* C5: a pointer-up over no node yields the decision of a pointer-up in the
\* same zone on the first root child when the recorded zone is Top and on
\* the last root child when it is Bottom; a move sample over no node leaves
\* the recorded zone alone and a zone recorded by a sample over a node is the
\* zone of that sample.
C5_BackgroundDrop ==
    [][/\ (Active /\ Step("mouseup") /\ HitNode(event'.pos) = Null
             /\ this.movingLineType = "top") =>
            /\ MovesIn(calls') = {1}
            /\ DecisionOf(calls'[1]) = DecisionOn(FirstRootChild, "top")
       /\ (Active /\ Step("mouseup") /\ HitNode(event'.pos) = Null
             /\ this.movingLineType = "bottom") =>
            /\ MovesIn(calls') = {1}
            /\ DecisionOf(calls'[1]) = DecisionOn(LastRootChild, "bottom")
       /\ (Active /\ Step("mousemove") /\ HitNode(event'.pos) = Null) =>
            this'.movingLineType = this.movingLineType
       /\ (Active /\ Step("mousemove") /\ HitNode(event'.pos) # Null
             /\ this'.movingLineType # Null) =>
            this'.movingLineType
              = ZoneOf(getBoundingClientRect(HitNode(event'.pos)), event'.pos.y)]_vars

\* a background release in zone Top placed the node first at root level
C5_Witness ==
    /\ event.type = "mouseup"
    /\ event.pos = Background
    /\ Len(calls) = 1
    /\ calls[1].newParentId = RootId
    /\ calls[1].index = 0

\* C6: every decision names a parent that is the root or a node of the tree
\* and an index that is -1 or lies in 0..(number of children of that
\* parent); the index is -1 exactly when the zone at release is None.
C6_DecisionIsValid ==
    [][(Active /\ Step("mouseup")) =>
            \A i \in MovesIn(calls') :
                /\ calls'[i].newParentId \in NodeIds \cup {RootId}
                /\ \/ calls'[i].index = -1
                   \/ calls'[i].index \in 0..Len(getChildIds(calls'[i].newParentId))
                /\ (calls'[i].index = -1) <=> (this.movingLineType = Null)]_vars

\* a decision that appends after the last child of its parent
C6_Witness ==
    /\ event.type = "mouseup"
    /\ Len(calls) = 1
    /\ calls[1].index > 0
    /\ calls[1].index = Len(getChildIds(calls[1].newParentId))

\* C7: tearing the feature down in the middle of a drag leaves the session
\* Idle, makes no tree.move call, clears the hover state and cancels the
\* armed auto-expand timer.
C7_AbortClearsSession ==
    [][(Active /\ Step("destroy")) =>
            /\ ~listening'
            /\ MovesIn(calls') = {}
            /\ this'.hoveredElement = Null
            /\ hoverClass' = {}
            /\ ~ArmedTimerPending(pending', this.timer)]_vars

\* what the specification calls an ineligible pointer-down
Ineligible(ev) ==
    \/ ev.rightButton
    \/ ev.tagName \in rejectedTagNames
    \/ \E i \in 1..Len(ev.classNames) : ev.classNames[i] \in rejectedClassNames
    \/ ev.isEditing

\* C8: an ineligible pointer-down changes no state, and as long as the
\* feature stays Idle no step sets a dragged node, hovers a node, arms a
\* timer or makes a tree.move call.
C8_IneligibleDownIgnored ==
    [][/\ (Step("mousedown") /\ Ineligible(event')) =>
            /\ this' = this
            /\ listening' = listening
            /\ hoverClass' = hoverClass
            /\ pending' = pending
            /\ calls' = <<>>
       /\ (Idle /\ ~listening') =>
            /\ this' = this
            /\ hoverClass' = hoverClass
            /\ pending' \subseteq pending
            /\ MovesIn(calls') = {}]_vars

\* an Idle feature has just ignored a pointer-down on an element whose first
\* class is rejected and whose last class is not
C8_Witness ==
    /\ event.type = "mousedown"
    /\ event.classNames = <<"no-drag", "a">>
    /\ Idle
    /\ this.currentNodeId = Null

\* C9: at most one node carries the hover class, it is the hovered node,
\* and the hovered node never changes from one node to another in one step.
C9_OneHoveredNode ==
    /\ [](/\ Cardinality(hoverClass) <= 1
          /\ hoverClass = {this.hoveredElement} \ {Null})
    /\ [][(this.hoveredElement # Null /\ this'.hoveredElement # Null) =>
            this'.hoveredElement = this.hoveredElement]_vars

\* the second root child is hovered by a sample that followed a hover of
\* another node in the same session
C9_Witness ==
    /\ event.type = "mousemove"
    /\ this.hoveredElement = "n4"
    /\ hoverClass = {"n4"}
    /\ this.timer = NoTimer

\* the specification's containment test of a pointer in a node's rectangle
Contained(id, pos) ==
    LET rect == getBoundingClientRect(id)
    IN  /\ rect.left < pos.x /\ pos.x < rect.right
        /\ IF isSortable
           THEN rect.top + lineBoundary.top < pos.y
                /\ pos.y < rect.bottom - lineBoundary.bottom
           ELSE rect.top < pos.y /\ pos.y < rect.bottom

\* C10: a move sample of an Active session whose pointer is not contained in
\* the hovered node, a sample over no node included, ends with the hover
\* state cleared and the armed timer cancelled.
C10_HoverExitOnLeave ==
    [][(/\ Active /\ Step("mousemove")
        /\ this.hoveredElement # Null
        /\ \/ HitNode(event'.pos) # this.hoveredElement
           \/ ~Contained(this.hoveredElement, event'.pos)) =>
            /\ this'.hoveredElement = Null
            /\ hoverClass' = {}
            /\ ~ArmedTimerPending(pending', this.timer)]_vars

\* a step runs one pending callback and nothing else: only a callback that is
\* still in the host's queue can run, and it leaves the queue when it runs
RunsOnePending ==
    \E t \in pending : pending' = pending \ {t} /\ calls' = <<Open(t.nodeId)>>

\* C11: the timer armed at a hover entry is the one the instance holds for as
\* long as that node stays hovered, a hover exit made by a move sample takes
\* it out of the host's queue, and only a callback still in the queue ever
\* runs; so no expand for that entry is issued after the exit.
C11_NoExpandAfterHoverExit ==
    [][/\ (Active /\ Step("mousemove") /\ this.hoveredElement = Null
             /\ this'.hoveredElement # Null /\ ~isLeaf(this'.hoveredElement)) =>
            /\ this'.timer # NoTimer
            /\ ~ArmedTimerPending(pending, this'.timer)
            /\ pending' = pending
                 \cup {[id |-> this'.timer, nodeId |-> this'.hoveredElement]}
       /\ (this.hoveredElement # Null /\ this'.hoveredElement = this.hoveredElement) =>
            this'.timer = this.timer
       /\ (Active /\ Step("mousemove") /\ this.hoveredElement # Null
             /\ this'.hoveredElement = Null) =>
            /\ ~ArmedTimerPending(pending', this.timer)
            /\ OpensIn(calls') = {}
       /\ (OpensIn(calls') # {}) => RunsOnePending]_vars

\* a session in which a hover exit has cancelled the timer of its entry while
\* a callback of an earlier session is still queued
C11_Witness ==
    /\ Active
    /\ event.type = "mousemove"
    /\ this.hoveredElement = Null
    /\ this.timer = NoTimer
    /\ pending = {[id |-> 1, nodeId |-> "n1"]}

\* C13: a callback enters the host's queue only in a move sample that enters
\* hover on a node that is not a leaf, one callback per entry and for the
\* entered node; a sample that leaves the hovered node hovered arms nothing.
C13_TimerArmedOncePerEntry ==
    [][/\ (pending' \ pending # {}) =>
            /\ Active /\ Step("mousemove")
            /\ this.hoveredElement = Null
            /\ this'.hoveredElement # Null
            /\ ~isLeaf(this'.hoveredElement)
            /\ pending' \ pending
                 = {[id |-> this'.timer, nodeId |-> this'.hoveredElement]}
       /\ (this.hoveredElement # Null /\ this'.hoveredElement = this.hoveredElement) =>
            pending' \subseteq pending]_vars

\* a sample that stayed inside the hovered non-leaf node after its timer had
\* run: nothing is armed again
C13_Witness ==
    /\ Active
    /\ event.type = "mousemove"
    /\ this.hoveredElement = "n1"
    /\ this.timer # NoTimer
    /\ pending = {}

\* C17: when the tree is not sortable the recorded zone is None in every
\* state and every decision appends to the target node: index -1 and the
\* target (the node under the pointer, the last root child on the
\* background) as the new parent.
C17_NotSortableOnlyReparents ==
    /\ [](~isSortable => this.movingLineType = Null)
    /\ [][(~isSortable /\ Active /\ Step("mouseup")) =>
            /\ MovesIn(calls') = {1}
            /\ calls'[1].index = -1
            /\ calls'[1].newParentId
                 = IF HitNode(event'.pos) # Null THEN HitNode(event'.pos)
                   ELSE LastRootChild]_vars

\* a release on a node of a tree that is not sortable, with the helper on
C17_Witness ==
    /\ ~isSortable
    /\ useHelper
    /\ event.type = "mouseup"
    /\ Len(calls) = 1
    /\ calls[1].newParentId = "n3"
    /\ calls[1].index = -1

\* C18: every move sample of an Active session over a node is evaluated,
\* whatever useHelper is: hover is entered when nothing is hovered and the
\* pointer is contained, and in sortable mode the zone of the sample is
\* recorded; so a release on a node in sortable mode places by the zone of
\* the last sample over a node.
C18_MoveSampleAlwaysEvaluated ==
    [][(Active /\ Step("mousemove") /\ HitNode(event'.pos) # Null) =>
            /\ isSortable =>
                 this'.movingLineType
                   = ZoneOf(getBoundingClientRect(HitNode(event'.pos)), event'.pos.y)
            /\ (this.hoveredElement = Null
                  /\ Contained(HitNode(event'.pos), event'.pos)) =>
                 this'.hoveredElement = HitNode(event'.pos)]_vars

\* C19: at most one auto-expand callback is pending at any time, and none is
\* pending while no node is hovered.
C19_AtMostOneTimer ==
    /\ Cardinality(pending) <= 1
    /\ this.hoveredElement = Null => pending = {}

\* C20: a pointer-up over no node while the recorded zone is None moves the
\* dragged node with the last root child as the new parent and index -1.
C20_BackgroundDropNoZone ==
    [][(Active /\ Step("mouseup") /\ HitNode(event'.pos) = Null
          /\ this.movingLineType = Null) =>
            calls' = <<Move(this.currentNodeId, LastRootChild, -1)>>]_vars

\* a background release with no zone recorded
C20_Witness ==
    /\ event.type = "mouseup"
    /\ event.pos = Background
    /\ Len(calls) = 1
    /\ calls[1].newParentId = "n4"
    /\ calls[1].index = -1

\* C12: no instance exists, and no zone or containment test is evaluated,
\* with a negative boundary margin: construction with one fails.
C12_NegativeMarginRejected ==
    (attached \/ probe.evaluated) =>
        (lineBoundary.top >= 0 /\ lineBoundary.bottom >= 0)

\* C14: the zone recorded for a pointer at height y over a rectangle is Top if
\* y < top + marginTop, otherwise Bottom if y > bottom - marginBottom,
\* otherwise None, for every rectangle, height and pair of margins; Top wins
\* when both inequalities hold.
C14_ZoneClassification ==
    probe.evaluated =>
        /\ probe.movingLineType = ZoneOf(probe.targetPos, probe.mousePos.y)
        /\ (/\ probe.mousePos.y < probe.targetPos.top + lineBoundary.top
            /\ probe.mousePos.y > probe.targetPos.bottom - lineBoundary.bottom) =>
              probe.movingLineType = "top"

\* a pointer inside both margins at once, classified Top
C14_Witness ==
    /\ probe.evaluated
    /\ probe.mousePos.y < probe.targetPos.top + lineBoundary.top
    /\ probe.mousePos.y > probe.targetPos.bottom - lineBoundary.bottom
    /\ probe.movingLineType = "top"

\* the pointer is at the vertical midpoint of the rectangle
AtMidpoint == 2 * probe.mousePos.y = probe.targetPos.top + probe.targetPos.bottom

NonNegativeMargins == lineBoundary.top >= 0 /\ lineBoundary.bottom >= 0

\* C15 as claimed: for every rectangle and every pair of non-negative
\* margins the midpoint of the rectangle is in zone None.
C15_MidpointIsNone ==
    (probe.evaluated /\ AtMidpoint /\ NonNegativeMargins) =>
        probe.movingLineType = Null

\* C15 as amended: the midpoint is in zone None when neither margin is more
\* than half the height of the rectangle.
C15_MidpointIsNoneWithinHalfHeight ==
    (/\ probe.evaluated /\ AtMidpoint /\ NonNegativeMargins
     /\ 2 * lineBoundary.top <= probe.targetPos.bottom - probe.targetPos.top
     /\ 2 * lineBoundary.bottom <= probe.targetPos.bottom - probe.targetPos.top) =>
        probe.movingLineType = Null

\* the midpoint of a rectangle whose top margin is exactly half its height
C15_Witness ==
    /\ probe.evaluated
    /\ AtMidpoint
    /\ NonNegativeMargins
    /\ lineBoundary.top > 0
    /\ 2 * lineBoundary.top = probe.targetPos.bottom - probe.targetPos.top
    /\ 2 * lineBoundary.bottom <= probe.targetPos.bottom - probe.targetPos.top
    /\ probe.movingLineType = Null

\* C16: in sortable mode a pointer the containment test accepts is in zone
\* None, for every rectangle and position, and in no state of a session is a
\* node hovered while the recorded zone is Top or Bottom.
C16_HoverExcludesBoundary ==
    isSortable =>
        /\ (probe.evaluated /\ probe.isContain) => probe.movingLineType = Null
        /\ this.hoveredElement # Null => this.movingLineType = Null

\* a node of a sortable tree is hovered in a session
C16_Witness ==
    /\ isSortable
    /\ Active
    /\ event.type = "mousemove"
    /\ this.hoveredElement = "n2"
    /\ this.movingLineType = Null

\* a contained pointer on a sortable instance with both margins in use
C16_ProbeReached ==
    /\ isSortable
    /\ probe.evaluated
    /\ probe.isContain
    /\ lineBoundary.top > 0
    /\ lineBoundary.bottom > 0

====
